---- MODULE Spec2Model ----
(***************************************************************************)
(* A model of image_fetcher.py: the spreadsheet-driven, operator-assisted  *)
(* product image downloader.                                               *)
(*                                                                         *)
(* Python strings are sequences of one-character strings, so that          *)
(* stripping, lower-casing, substring tests, regular-expression matches    *)
(* and path arithmetic are computed rather than assumed.                   *)
(***************************************************************************)
EXTENDS Integers, Sequences, FiniteSets, TLC

VARIABLES
    pc,            \* position of main(), or "call"/"ret" of a function under test
    input_exists,  \* args.input.exists()
    raw_headers,   \* first row of the worksheet, as cell values
    headers,       \* load_rows(...)[0]
    sku_index,     \* find_column(headers, SkuCandidates)
    name_index,    \* find_column(headers, NameCandidates)
    dir_made,      \* args.output_dir.mkdir(...) was called
    row_count,     \* rows the iterator has yielded so far (row_number - 1)
    row,           \* the row being processed
    sku,           \* str(sku_value).strip()
    query,         \* f"{name}"
    results,       \* fetch_image_results(...) of the current row
    cand,          \* index (from 1) in the inner enumerate(results, start=1)
    accepted,      \* the local flag of main()
    url,           \* result.get("image") of the candidate under review
    response,      \* the response of session.get in download_image
    bad_answers,   \* unrecognised answers given to the current prompt
    exit_code,     \* what main() returned
    stderr_line,   \* the fatal configuration error printed to stderr
    logged,        \* number of per-row outcome lines printed so far
    row_log,       \* outcome lines printed for the current row
    failures,      \* "Failed to ..." lines printed so far
    row_searches,  \* queries handed to fetch_image_results for the current row
    row_prompts,   \* candidate indices prompted for the current row
    row_attempts,  \* candidate indices handed to download_image for the current row
    row_writes,    \* paths write_bytes wrote for the current row, in order
    fn_args,       \* arguments of the function under test
    fn_ret         \* its return value

vars == <<pc, input_exists, raw_headers, headers, sku_index, name_index, dir_made,
          row_count, row, sku, query, results, cand, accepted, url, response,
          bad_answers, exit_code, stderr_line, logged, row_log, failures,
          row_searches, row_prompts, row_attempts, row_writes, fn_args, fn_ret>>

driver_vars == <<input_exists, raw_headers, headers, sku_index, name_index, dir_made,
          row_count, row, sku, query, results, cand, accepted, url, response,
          bad_answers, exit_code, stderr_line, logged, row_log, failures,
          row_searches, row_prompts, row_attempts, row_writes>>

----------------------------------------------------------------------------
(* Python values *)

\* Python's None, kept apart from every string (no string has this element).
None == <<"<None>">>

\* find_column's "return None".
NoIndex == -1

LowerSeq == <<"a","b","c","d","e","f","g","h","i","j","k","l","m",
              "n","o","p","q","r","s","t","u","v","w","x","y","z">>

UpperSeq == <<"A","B","C","D","E","F","G","H","I","J","K","L","M",
              "N","O","P","Q","R","S","T","U","V","W","X","Y","Z">>

Digits == {"0","1","2","3","4","5","6","7","8","9"}

Range(s) == {s[i] : i \in 1..Len(s)}

\* str.strip() with no argument strips whitespace.
Whitespace == {" ", "\t", "\n", "\r", "\f"}

\* str.lower(), one character.
LowerChar(c) ==
    IF \E i \in 1..26 : UpperSeq[i] = c
    THEN LowerSeq[CHOOSE i \in 1..26 : UpperSeq[i] = c]
    ELSE c

\* str.lower()
Lower(s) == [i \in 1..Len(s) |-> LowerChar(s[i])]

RECURSIVE LStrip(_, _)
LStrip(s, chars) ==
    IF s # <<>> /\ Head(s) \in chars THEN LStrip(Tail(s), chars) ELSE s

RECURSIVE RStrip(_, _)
RStrip(s, chars) ==
    IF s # <<>> /\ s[Len(s)] \in chars
    THEN RStrip(SubSeq(s, 1, Len(s) - 1), chars)
    ELSE s

\* str.strip(chars)
Strip(s, chars) == RStrip(LStrip(s, chars), chars)

\* "sub in s" for two strings.
Contains(s, sub) ==
    \E i \in 0..(Len(s) - Len(sub)) : SubSeq(s, i + 1, i + Len(sub)) = sub

----------------------------------------------------------------------------
(* load_rows: the header row *)

\* str(value).strip() if value is not None else ""
HeaderText(value) == IF value = None THEN <<>> ELSE Strip(value, Whitespace)

LoadHeaders(cells) == [i \in 1..Len(cells) |-> HeaderText(cells[i])]

----------------------------------------------------------------------------
(* find_column *)

SkuCandidates ==
    << <<"s","k","u">>,
       <<"i","t","e","m"," ","s","k","u">>,
       <<"i","t","e","m","_","s","k","u">> >>

NameCandidates ==
    << <<"n","a","m","e">>,
       <<"p","r","o","d","u","c","t"," ","n","a","m","e">>,
       <<"p","r","o","d","u","c","t","_","n","a","m","e">>,
       <<"t","i","t","l","e">> >>

\* lowered = [header.lower() for header in headers]
Lowered(hs) == [i \in 1..Len(hs) |-> Lower(hs[i])]

\* list.index(x), 0-based, scanning from position k (1-based in the model).
RECURSIVE ListIndexFrom(_, _, _)
ListIndexFrom(list, x, k) ==
    IF k > Len(list) THEN NoIndex
    ELSE IF list[k] = x THEN k - 1
    ELSE ListIndexFrom(list, x, k + 1)

\* the first loop: for candidate in candidates: if candidate in lowered: ...
RECURSIVE ExactLoop(_, _, _)
ExactLoop(lowered, candidates, k) ==
    IF k > Len(candidates) THEN NoIndex
    ELSE IF candidates[k] \in Range(lowered)
         THEN ListIndexFrom(lowered, candidates[k], 1)
         ELSE ExactLoop(lowered, candidates, k + 1)

\* the inner loop of the second pass: for candidate in candidates: if candidate in header
RECURSIVE InnerLoop(_, _, _)
InnerLoop(header, candidates, k) ==
    IF k > Len(candidates) THEN FALSE
    ELSE IF Contains(header, candidates[k]) THEN TRUE
    ELSE InnerLoop(header, candidates, k + 1)

\* the second pass: for index, header in enumerate(lowered): ...
RECURSIVE SubstringLoop(_, _, _)
SubstringLoop(lowered, candidates, k) ==
    IF k > Len(lowered) THEN NoIndex
    ELSE IF InnerLoop(lowered[k], candidates, 1) THEN k - 1
    ELSE SubstringLoop(lowered, candidates, k + 1)

\* the exact pass done in header order instead of candidate order
RECURSIVE ExactLoopHeaderOrder(_, _, _)
ExactLoopHeaderOrder(lowered, candidates, k) ==
    IF k > Len(lowered) THEN NoIndex
    ELSE IF lowered[k] \in Range(candidates) THEN k - 1
    ELSE ExactLoopHeaderOrder(lowered, candidates, k + 1)

find_column_header_order(hs, candidates) ==
    LET lowered == Lowered(hs)
        exact   == ExactLoopHeaderOrder(lowered, candidates, 1)
    IN  IF exact # NoIndex THEN exact ELSE SubstringLoop(lowered, candidates, 1)

find_column(hs, candidates) ==
    LET lowered == Lowered(hs)
        exact   == ExactLoop(lowered, candidates, 1)
    IN  IF exact # NoIndex THEN exact ELSE SubstringLoop(lowered, candidates, 1)

----------------------------------------------------------------------------
(* safe_filename *)

\* the character class [A-Za-z0-9._-]
AllowedChars == Range(LowerSeq) \cup Range(UpperSeq) \cup Digits \cup {".", "_", "-"}

\* re.sub(r"[^A-Za-z0-9._-]+", "_", s): every maximal run of characters outside
\* the class becomes one underscore. inrun: the previous character was in a run.
RECURSIVE SubRuns(_, _)
SubRuns(s, inrun) ==
    IF s = <<>> THEN <<>>
    ELSE IF Head(s) \in AllowedChars THEN <<Head(s)>> \o SubRuns(Tail(s), FALSE)
    ELSE IF inrun THEN SubRuns(Tail(s), TRUE)
    ELSE <<"_">> \o SubRuns(Tail(s), TRUE)

ImageName == <<"i","m","a","g","e">>

\* underscores trimmed before the substitution instead of after it
safe_filename_trim_first(name) ==
    LET stripped == Strip(Strip(name, Whitespace), {"_"})
        subbed   == SubRuns(stripped, FALSE)
    IN  IF subbed # <<>> THEN subbed ELSE ImageName

safe_filename(name) ==
    LET subbed   == SubRuns(Strip(name, Whitespace), FALSE)
        stripped == Strip(subbed, {"_"})
    IN  IF stripped # <<>> THEN stripped ELSE ImageName

----------------------------------------------------------------------------
(* guess_extension *)

Jpg  == <<"j","p","g">>
Jpeg == <<"j","p","e","g">>
Png  == <<"p","n","g">>
Gif  == <<"g","i","f">>
Webp == <<"w","e","b","p">>

Dot(ext) == <<".">> \o ext

\* the alternation (jpg|jpeg|png|gif|webp), in the order the regex tries it
ExtAlternatives == <<Jpg, Jpeg, Png, Gif, Webp>>

\* (?:$|\?) at 1-based position p: "$" matches at the end of the string and
\* before a newline that ends it.
TailMatches(s, p) ==
    \/ p = Len(s) + 1
    \/ p = Len(s) /\ s[p] = "\n"
    \/ p <= Len(s) /\ s[p] = "?"

\* "\." at position i, then alternative alt (re.IGNORECASE), then the tail.
AltMatchesAt(s, i, alt) ==
    /\ i + Len(alt) <= Len(s)
    /\ s[i] = "."
    /\ Lower(SubSeq(s, i + 1, i + Len(alt))) = alt
    /\ TailMatches(s, i + Len(alt) + 1)

\* the first alternative that matches at position i, or None
RECURSIVE FirstAltAt(_, _, _)
FirstAltAt(s, i, k) ==
    IF k > Len(ExtAlternatives) THEN None
    ELSE IF AltMatchesAt(s, i, ExtAlternatives[k]) THEN ExtAlternatives[k]
    ELSE FirstAltAt(s, i, k + 1)

\* re.search: the leftmost position with a match; match.group(1).lower(), or None
RECURSIVE RegexSearch(_, _)
RegexSearch(s, i) ==
    IF i > Len(s) THEN None
    ELSE IF FirstAltAt(s, i, 1) # None THEN FirstAltAt(s, i, 1)
    ELSE RegexSearch(s, i + 1)

\* the "if content_type:" block; None when it falls through
ContentTypeExtension(content_type) ==
    IF content_type = None \/ content_type = <<>> THEN None
    ELSE IF Contains(content_type, Jpeg) THEN Dot(Jpg)
    ELSE IF Contains(content_type, Png) THEN Dot(Png)
    ELSE IF Contains(content_type, Webp) THEN Dot(Webp)
    ELSE IF Contains(content_type, Gif) THEN Dot(Gif)
    ELSE None

\* the regex block; None when there is no match
UrlExtension(u) ==
    LET ext == RegexSearch(u, 1)
    IN  IF ext = None THEN None
        ELSE IF ext = Jpeg THEN Dot(Jpg)
        ELSE Dot(ext)

\* the URL suffix consulted before the content type
guess_extension_url_first(u, content_type) ==
    IF UrlExtension(u) # None THEN UrlExtension(u)
    ELSE IF ContentTypeExtension(content_type) # None
    THEN ContentTypeExtension(content_type)
    ELSE Dot(Jpg)

guess_extension(u, content_type) ==
    IF ContentTypeExtension(content_type) # None
    THEN ContentTypeExtension(content_type)
    ELSE IF UrlExtension(u) # None THEN UrlExtension(u)
    ELSE Dot(Jpg)

----------------------------------------------------------------------------
(* pathlib: a path is the sequence of its components *)

\* --output-dir, as given on the command line
OutputDir == << <<"o","u","t">> >>

\* args.output_dir / filename, for a filename without "/": pathlib drops a
\* component that is empty or "."
PathJoin(dir, filename) ==
    IF filename = <<>> \/ filename = <<".">> THEN dir ELSE Append(dir, filename)

\* PurePath.name
PathName(p) == IF p = <<>> THEN <<>> ELSE p[Len(p)]

\* str.rfind("."), 1-based; 0 when there is none
RECURSIVE RFindDot(_, _)
RFindDot(name, i) ==
    IF i = 0 THEN 0
    ELSE IF name[i] = "." THEN i
    ELSE RFindDot(name, i - 1)

\* PurePath.suffix: from the last dot, unless that dot starts or ends the name
PathSuffix(p) ==
    LET name == PathName(p)
        i    == RFindDot(name, Len(name))
    IN  IF 1 < i /\ i < Len(name) THEN SubSeq(name, i, Len(name)) ELSE <<>>

\* PurePath.with_suffix(suffix); None stands for the ValueError of an empty name
WithSuffix(p, suffix) ==
    LET name == PathName(p)
        old  == PathSuffix(p)
        stem == SubSeq(name, 1, Len(name) - Len(old))
    IN  IF name = <<>> THEN None
        ELSE Append(SubSeq(p, 1, Len(p) - 1), stem \o suffix)

\* main, lines 197-198: destination = args.output_dir / safe_filename(sku)
Destination(s) == PathJoin(OutputDir, safe_filename(s))

\* download_image, lines 103-104: the path the bytes go to
OutputPath(u, destination, content_type) ==
    WithSuffix(destination, guess_extension(u, content_type))

----------------------------------------------------------------------------
(* bounds and input pools of the driver *)

\* rows the worksheet iterator yields after the header
MaxRows == 2

\* results in the provider's JSON reply
MaxProviderResults == 3

\* --max-results
MaxResultsArg == 2

\* unrecognised answers the operator gives to one prompt
MaxBadAnswers == 1

Min(a, b) == IF a < b THEN a ELSE b

\* header rows of the worksheet, as cell values
HeaderRows ==
    { << <<"S","K","U">>, <<"N","a","m","e">> >>,
      << <<" ","T","i","t","l","e"," ">>, <<"I","t","e","m"," ","S","K","U">> >>,
      << <<"s","k","u","_","n","a","m","e">> >>,
      << <<"S","K","U">>, None >>,
      << <<"P","r","i","c","e">>, <<"N","a","m","e">> >> }

\* cells in a data row: up to the widest header row of the pool
MaxCells == CHOOSE n \in 0..8 :
    /\ \E h \in HeaderRows : Len(h) = n
    /\ \A h \in HeaderRows : Len(h) <= n

\* values of a data cell
CellValues ==
    { None, <<>>, <<" ">>, <<"A",".","B">>, <<".">> }

RECURSIVE SeqsUpTo(_, _)
SeqsUpTo(S, n) ==
    IF n = 0 THEN {<<>>}
    ELSE LET shorter == SeqsUpTo(S, n - 1)
         IN  shorter \cup {Append(q, x) : q \in shorter, x \in S}

DataRows == SeqsUpTo(CellValues, MaxCells)

\* image URLs of the provider's results
UrlPng   == <<"h","/","i",".","p","n","g">>
UrlPlain == <<"h","/","i">>

\* result.get("image"): a URL, or no such key
ImageValues == {UrlPng, UrlPlain, None}

ResultLists == SeqsUpTo([image : ImageValues], MaxProviderResults)

\* what the provider does to one query: the two GETs of fetch_image_results
\*   root: the root page request fails, answers an error status, or answers a
\*         page with the token in the first pattern, the second, or neither
\*   js  : the i.js request fails, answers an error status, a body that is not
\*         JSON, or a JSON body whose "results" is the list
ProviderReplies ==
    [root : {"error", "bad_status", "no_vqd"}, js : {"json"}, results : {<<>>}]
        \cup [root : {"vqd_quoted", "vqd_param"},
              js : {"error", "bad_status", "bad_json"}, results : {<<>>}]
        \cup [root : {"vqd_quoted"}, js : {"json"}, results : ResultLists]
        \cup [root : {"vqd_param"}, js : {"json"},
              results : {l \in ResultLists : Len(l) <= 1}]

\* Content-Type headers of a download response
ContentTypes == {None, <<"i","m","a","g","e","/","g","i","f">>}

\* download_image's session.get: raises, or returns a response
DownloadResponses ==
    {[raised |-> TRUE, status |-> 0, content_type |-> None]}
        \cup [raised : {FALSE}, status : {200, 404}, content_type : ContentTypes]

NoResponse == [raised |-> FALSE, status |-> 0, content_type |-> None]

\* what the operator types at a prompt
Answers ==
    { <<"y">>, <<" ","Y","E","S"," ">>, <<"n">>, <<"N","o">>, <<>>, <<"o","k">> }

----------------------------------------------------------------------------
(* get_vqd, fetch_image_results *)

\* get_vqd: whether it returns a token (TRUE) or raises (FALSE)
get_vqd(reply) == reply.root \in {"vqd_quoted", "vqd_param"}

\* fetch_image_results: it raises, or returns results[:max_results]
fetch_image_results(reply, max_results) ==
    IF ~get_vqd(reply) \/ reply.js # "json"
    THEN [raised |-> TRUE, results |-> <<>>]
    ELSE [raised |-> FALSE,
          results |-> SubSeq(reply.results, 1, Min(max_results, Len(reply.results)))]

----------------------------------------------------------------------------
(* prompt_yes_no: one pass of its loop *)

Yes == {<<"y">>, <<"y","e","s">>}
No  == {<<"n">>, <<"n","o">>}

\* "yes", "no", or "again" (print the hint and ask again)
PromptAnswer(answer) ==
    LET a == Lower(Strip(answer, Whitespace))
    IN  IF a \in Yes THEN "yes"
        ELSE IF a \in No THEN "no"
        ELSE "again"

----------------------------------------------------------------------------
(* main *)

\* row[index] if index < len(row) else None
CellAt(r, index) == IF index < Len(r) THEN r[index + 1] ELSE None

\* a test for None alone ("value is None")
FalsyNoneOnly(value) == value = None

\* "not value" for a cell: None and the empty string are false
Falsy(value) == value = None \/ value = <<>>

\* line 168
MissingField(r, si, ni) == Falsy(CellAt(r, si)) \/ Falsy(CellAt(r, ni))

\* str(value).strip()
CellText(value) == Strip(value, Whitespace)

\* no status check at all
StatusOkUnchecked(resp) == TRUE

\* response.raise_for_status() passes
StatusOk(resp) == resp.status < 400

\* no "break": the scan goes on with the next candidate
AfterDownloadKeepScanning(c) == [pc |-> "select", cand |-> c + 1]

\* where main goes after download_image returned or its exception was caught:
\* break leaves the scan at candidate c, "if not accepted" is false, next row
AfterDownload(c) == [pc |-> "loop", cand |-> c]

\* the exception of a failed search left uncaught: main() ends without a return
AfterSearchFailureUncaught == "done"

\* where main goes after a failed search: continue
AfterSearchFailure == "loop"

PureIdle == fn_args = <<>> /\ fn_ret = <<>>

Init ==
    /\ pc = "start"
    /\ input_exists \in BOOLEAN
    /\ raw_headers \in HeaderRows
    /\ headers = <<>>
    /\ sku_index = NoIndex
    /\ name_index = NoIndex
    /\ dir_made = FALSE
    /\ row_count = 0
    /\ row = <<>>
    /\ sku = <<>>
    /\ query = <<>>
    /\ results = <<>>
    /\ cand = 0
    /\ accepted = FALSE
    /\ url = None
    /\ response = NoResponse
    /\ bad_answers = 0
    /\ exit_code = <<>>
    /\ stderr_line = "none"
    /\ logged = 0
    /\ row_log = <<>>
    /\ failures = 0
    /\ row_searches = <<>>
    /\ row_prompts = <<>>
    /\ row_attempts = <<>>
    /\ row_writes = <<>>
    /\ PureIdle

\* lines 145-147: the input file does not exist
InputMissing ==
    /\ pc = "start"
    /\ ~input_exists
    /\ pc' = "done"
    /\ exit_code' = <<1>>
    /\ stderr_line' = "input_not_found"
    /\ UNCHANGED <<input_exists, raw_headers, headers, sku_index, name_index,
                   dir_made, row_count, row, sku, query, results, cand, accepted,
                   url, response, bad_answers, logged, row_searches,
                   row_prompts, row_attempts, row_writes, row_log, failures, fn_args,
                   fn_ret>>

\* lines 149-163: load the header, resolve the two columns, make the directory
Startup ==
    /\ pc = "start"
    /\ input_exists
    /\ LET hs == LoadHeaders(raw_headers)
           si == find_column(hs, SkuCandidates)
           ni == find_column(hs, NameCandidates)
       IN  /\ headers' = hs
           /\ sku_index' = si
           /\ name_index' = ni
           /\ IF si = NoIndex \/ ni = NoIndex
              THEN /\ pc' = "done"
                   /\ exit_code' = <<1>>
                   /\ stderr_line' = "columns_not_found"
                   /\ UNCHANGED dir_made
              ELSE /\ pc' = "loop"
                   /\ dir_made' = TRUE
                   /\ UNCHANGED <<exit_code, stderr_line>>
    /\ UNCHANGED <<input_exists, raw_headers, row_count, row, sku, query, results,
                   cand, accepted, url, response, bad_answers, logged,
                   row_searches, row_prompts, row_attempts, row_writes,
                   row_log, failures, fn_args,
                   fn_ret>>

\* line 165, the iterator is exhausted; line 209
ReturnZero ==
    /\ pc = "loop"
    /\ pc' = "done"
    /\ exit_code' = <<0>>
    /\ UNCHANGED <<input_exists, raw_headers, headers, sku_index, name_index,
                   dir_made, row_count, row, sku, query, results, cand, accepted,
                   url, response, bad_answers, logged, row_log,
                   row_searches, row_prompts, row_attempts, row_writes,
                   stderr_line, failures, fn_args,
                   fn_ret>>

\* lines 165-175: the iterator yields a row. The locals of the loop body are
\* dead at the head of the loop (each is assigned before it is read), and the
\* model clears them there.
NextRow ==
    /\ pc = "loop"
    /\ row_count < MaxRows
    /\ \E r \in DataRows :
        /\ row' = r
        /\ row_count' = row_count + 1
        /\ IF MissingField(r, sku_index, name_index)
           THEN /\ pc' = "loop"
                /\ logged' = logged + 1
                /\ row_log' = <<"skip">>
                /\ sku' = <<>>
                /\ query' = <<>>
           ELSE /\ pc' = "search"
                /\ sku' = CellText(CellAt(r, sku_index))
                /\ query' = CellText(CellAt(r, name_index))
                /\ row_log' = <<>>
                /\ UNCHANGED logged
    /\ results' = <<>>
    /\ cand' = 0
    /\ accepted' = FALSE
    /\ url' = None
    /\ response' = NoResponse
    /\ bad_answers' = 0
    /\ row_searches' = <<>>
    /\ row_prompts' = <<>>
    /\ row_attempts' = <<>>
    /\ row_writes' = <<>>
    /\ UNCHANGED <<input_exists, raw_headers, headers, sku_index, name_index,
                   dir_made, exit_code, stderr_line, failures, fn_args,
                   fn_ret>>

\* lines 177-187: the search, its two failure exits, and the start of the scan
Search ==
    /\ pc = "search"
    /\ \E reply \in ProviderReplies :
        LET found == fetch_image_results(reply, MaxResultsArg)
        IN  /\ row_searches' = Append(row_searches, query)
            /\ IF found.raised
               THEN /\ pc' = AfterSearchFailure
                    /\ logged' = logged + 1
                    /\ row_log' = Append(row_log, "search_failed")
                    /\ failures' = failures + 1
                    /\ UNCHANGED <<results, cand, accepted>>
               ELSE IF Len(found.results) = 0
               THEN /\ pc' = "loop"
                    /\ results' = found.results
                    /\ logged' = logged + 1
                    /\ row_log' = Append(row_log, "no_results")
                    /\ UNCHANGED <<cand, accepted, failures>>
               ELSE /\ pc' = "select"
                    /\ results' = found.results
                    /\ cand' = 1
                    /\ accepted' = FALSE
                    /\ UNCHANGED <<logged, row_log, failures>>
    /\ UNCHANGED <<input_exists, raw_headers, headers, sku_index, name_index,
                   dir_made, row_count, row, sku, query, url, response,
                   bad_answers, exit_code, row_prompts, row_attempts,
                   row_writes, stderr_line, fn_args, fn_ret>>

\* lines 188-195 and 206-207: the head of the inner loop
Select ==
    /\ pc = "select"
    /\ IF cand > Len(results)
       THEN /\ pc' = "loop"
            /\ IF ~accepted
               THEN logged' = logged + 1 /\ row_log' = Append(row_log, "no_selection")
               ELSE UNCHANGED <<logged, row_log>>
            /\ UNCHANGED <<cand, url, bad_answers, row_prompts>>
       ELSE IF Falsy(results[cand].image)
       THEN /\ pc' = "select"
            /\ cand' = cand + 1
            /\ UNCHANGED <<url, bad_answers, logged, row_log, row_prompts>>
       ELSE /\ pc' = "prompt"
            /\ url' = results[cand].image
            /\ bad_answers' = 0
            /\ row_prompts' = Append(row_prompts, cand)
            /\ UNCHANGED <<cand, logged, row_log>>
    /\ UNCHANGED <<input_exists, raw_headers, headers, sku_index, name_index,
                   dir_made, row_count, row, sku, query, results, accepted,
                   response, exit_code, row_searches, row_attempts,
                   row_writes, stderr_line, failures, fn_args,
                   fn_ret>>

\* line 196 and prompt_yes_no: one answer of the operator
Prompt ==
    /\ pc = "prompt"
    /\ \E answer \in Answers :
        LET a == PromptAnswer(answer)
        IN  IF a = "yes"
            THEN /\ pc' = "fetch"
                 /\ row_attempts' = Append(row_attempts, cand)
                 /\ UNCHANGED <<cand, bad_answers>>
            ELSE IF a = "no"
            THEN /\ pc' = "select"
                 /\ cand' = cand + 1
                 /\ UNCHANGED <<row_attempts, bad_answers>>
            ELSE /\ bad_answers < MaxBadAnswers
                 /\ bad_answers' = bad_answers + 1
                 /\ UNCHANGED <<pc, cand, row_attempts>>
    /\ UNCHANGED <<input_exists, raw_headers, headers, sku_index, name_index,
                   dir_made, row_count, row, sku, query, results, accepted, url,
                   response, exit_code, logged, row_log, row_searches,
                   row_prompts, row_writes, stderr_line, failures, fn_args,
                   fn_ret>>

\* lines 201-204 after a failure inside download_image
DownloadFailed ==
    /\ pc' = AfterDownload(cand).pc
    /\ cand' = AfterDownload(cand).cand
    /\ accepted' = TRUE
    /\ logged' = logged + 1
    /\ row_log' = Append(row_log, "download_failed")
    /\ failures' = failures + 1

\* line 101: session.get(url)
Fetch ==
    /\ pc = "fetch"
    /\ \E resp \in DownloadResponses :
        IF resp.raised
        THEN DownloadFailed /\ UNCHANGED response
        ELSE /\ pc' = "status"
             /\ response' = resp
             /\ UNCHANGED <<cand, accepted, logged, row_log, failures>>
    /\ UNCHANGED <<input_exists, raw_headers, headers, sku_index, name_index,
                   dir_made, row_count, row, sku, query, results, url,
                   bad_answers, exit_code, row_searches, row_prompts,
                   row_attempts, row_writes, stderr_line, fn_args, fn_ret>>

\* line 102: response.raise_for_status()
RaiseForStatus ==
    /\ pc = "status"
    /\ IF StatusOk(response)
       THEN /\ pc' = "write"
            /\ UNCHANGED <<cand, accepted, logged, row_log, failures>>
       ELSE DownloadFailed
    /\ UNCHANGED <<input_exists, raw_headers, headers, sku_index, name_index,
                   dir_made, row_count, row, sku, query, results, url, response,
                   bad_answers, exit_code, row_searches, row_prompts,
                   row_attempts, row_writes, stderr_line, fn_args, fn_ret>>

\* lines 103-106 and 203-204: name the file, write it, report it
Write ==
    /\ pc = "write"
    /\ LET output_path == OutputPath(url, Destination(sku), response.content_type)
       IN  IF output_path = None
           THEN DownloadFailed /\ UNCHANGED row_writes
           ELSE /\ row_writes' = Append(row_writes, output_path)
                /\ pc' = AfterDownload(cand).pc
                /\ cand' = AfterDownload(cand).cand
                /\ accepted' = TRUE
                /\ logged' = logged + 1
                /\ row_log' = Append(row_log, "saved")
                /\ UNCHANGED failures
    /\ UNCHANGED <<input_exists, raw_headers, headers, sku_index, name_index,
                   dir_made, row_count, row, sku, query, results, url, response,
                   bad_answers, exit_code, row_searches, row_prompts,
                   row_attempts, stderr_line, fn_args, fn_ret>>

Next ==
    \/ InputMissing
    \/ Startup
    \/ ReturnZero
    \/ NextRow
    \/ Search
    \/ Select
    \/ Prompt
    \/ Fetch
    \/ RaiseForStatus
    \/ Write

Spec == Init /\ [][Next]_vars

----------------------------------------------------------------------------
(* The pure functions, each called on every input of a bounded pool *)

\* main() is not running
DriverIdle ==
    /\ input_exists = FALSE
    /\ raw_headers = <<>>
    /\ headers = <<>>
    /\ sku_index = NoIndex
    /\ name_index = NoIndex
    /\ dir_made = FALSE
    /\ row_count = 0
    /\ row = <<>>
    /\ sku = <<>>
    /\ query = <<>>
    /\ results = <<>>
    /\ cand = 0
    /\ accepted = FALSE
    /\ url = None
    /\ response = NoResponse
    /\ bad_answers = 0
    /\ exit_code = <<>>
    /\ stderr_line = "none"
    /\ logged = 0
    /\ row_log = <<>>
    /\ failures = 0
    /\ row_searches = <<>>
    /\ row_prompts = <<>>
    /\ row_attempts = <<>>
    /\ row_writes = <<>>

\* headers in a header list
MaxHeaders == 3

\* header texts, as load_rows hands them to find_column
HeaderTexts ==
    { <<"s","k","u">>,
      <<"S","K","U">>,
      <<"I","t","e","m"," ","S","K","U">>,
      <<"i","t","e","m","_","s","k","u">>,
      <<"n","a","m","e">>,
      <<"N","a","m","e">>,
      <<"P","r","o","d","u","c","t"," ","N","a","m","e">>,
      <<"T","i","t","l","e">>,
      <<"s","k","u","_","n","a","m","e">>,
      <<"P","r","i","c","e">>,
      <<>> }

HeaderLists == SeqsUpTo(HeaderTexts, MaxHeaders)

\* candidate lists: the two of main(), and others that tell the orders apart
CandidateLists ==
    { SkuCandidates,
      NameCandidates,
      << <<"i","t","e","m"," ","s","k","u">>, <<"s","k","u">> >>,
      << <<"t","i","t","l","e">>, <<"n","a","m","e">>, <<"k","u">> >>,
      <<>> }

InitFind ==
    /\ pc = "call"
    /\ fn_args \in HeaderLists \X CandidateLists
    /\ fn_ret = <<>>
    /\ DriverIdle

CallFindColumn ==
    /\ pc = "call"
    /\ pc' = "ret"
    /\ fn_ret' = <<find_column(fn_args[1], fn_args[2])>>
    /\ UNCHANGED fn_args
    /\ UNCHANGED driver_vars

SpecFind == InitFind /\ [][CallFindColumn]_vars

\* pieces an image URL is put together from
MaxUrlPieces == 3

UrlPieces ==
    { <<"a">>, <<".">>, <<"?">>, <<"#">>, <<"p","n","g">>,
      <<".","j","p","g">>, <<".","J","P","e","G">>, <<".","p","n","g">>,
      <<".","g","i","f">>, <<".","w","e","b","p">> }

RECURSIVE Flatten(_)
Flatten(pieces) ==
    IF pieces = <<>> THEN <<>> ELSE Head(pieces) \o Flatten(Tail(pieces))

Urls == {Flatten(q) : q \in SeqsUpTo(UrlPieces, MaxUrlPieces)}

ImageSlash == <<"i","m","a","g","e","/">>

\* response.headers.get("Content-Type")
ContentTypeValues ==
    { None, <<>>,
      ImageSlash \o Jpeg, ImageSlash \o Png, ImageSlash \o Webp, ImageSlash \o Gif,
      ImageSlash \o Jpg,
      ImageSlash \o <<"P","N","G">>,
      ImageSlash \o Gif \o <<";">> \o Png,
      <<"t","e","x","t","/","h","t","m","l">> }

InitExt ==
    /\ pc = "call"
    /\ fn_args \in Urls \X ContentTypeValues
    /\ fn_ret = <<>>
    /\ DriverIdle

CallGuessExtension ==
    /\ pc = "call"
    /\ pc' = "ret"
    /\ fn_ret' = <<guess_extension(fn_args[1], fn_args[2])>>
    /\ UNCHANGED fn_args
    /\ UNCHANGED driver_vars

SpecExt == InitExt /\ [][CallGuessExtension]_vars

\* characters of a name to sanitize
MaxNameLen == 4

NameChars == {"a", "_", " ", "/", ".", "*"}

SpecExampleName == <<"A","/","B"," ","C","*","D">>

Names == SeqsUpTo(NameChars, MaxNameLen) \cup {SpecExampleName}

InitSafe ==
    /\ pc = "call"
    /\ fn_args \in {<<n>> : n \in Names}
    /\ fn_ret = <<>>
    /\ DriverIdle

\* safe_filename(x)
CallSafeFilename ==
    /\ pc = "call"
    /\ pc' = "again"
    /\ fn_ret' = <<safe_filename(fn_args[1])>>
    /\ UNCHANGED fn_args
    /\ UNCHANGED driver_vars

\* safe_filename of what the first call returned
CallSafeFilenameAgain ==
    /\ pc = "again"
    /\ pc' = "ret"
    /\ fn_ret' = Append(fn_ret, safe_filename(fn_ret[1]))
    /\ UNCHANGED fn_args
    /\ UNCHANGED driver_vars

NextSafe == CallSafeFilename \/ CallSafeFilenameAgain

SpecSafe == InitSafe /\ [][NextSafe]_vars

----------------------------------------------------------------------------
(* Properties *)

\* a strictly increasing sequence of numbers
Increasing(q) == \A i \in 1..Len(q) : \A j \in 1..Len(q) : i < j => q[i] < q[j]

Last(q) == q[Len(q)]

InDownload == pc \in {"fetch", "status", "write"}

MidRow == pc \in {"search", "select", "prompt", "fetch", "status", "write"}

\* C1: within one row the candidates are prompted in result-list order, the
\* scan stops at the first candidate the operator accepts, exactly one download
\* is attempted for a row with an accepted candidate (that candidate, the last
\* one prompted) and none for a row without, and at most one file is written
\* per row.
C1_OneDownloadPerRow ==
    /\ Increasing(row_prompts)
    /\ \A i \in 1..Len(row_prompts) :
          row_prompts[i] \in 1..Len(results) /\ ~Falsy(results[row_prompts[i]].image)
    /\ Len(row_attempts) <= 1
    /\ Len(row_attempts) = 1 <=> (InDownload \/ accepted)
    /\ row_attempts # <<>> => row_attempts[1] = Last(row_prompts)
    /\ Len(row_writes) <= Len(row_attempts)
    /\ (pc = "loop" /\ row_log = <<"no_selection">>) => row_attempts = <<>>

\* C1 witness: every candidate but the last was rejected, the last accepted and
\* downloaded, and the row is over.
C1_Witness ==
    /\ pc = "loop"
    /\ Len(results) = MaxResultsArg
    /\ Len(row_prompts) = MaxResultsArg
    /\ row_attempts = <<MaxResultsArg>>
    /\ Len(row_writes) = 1

\* C2: the file written for an accepted product is in the output directory and
\* is named safe_filename(SKU) followed by the inferred extension. (Stated for
\* sheets whose SKU and name columns are two columns, the sheets the input
\* contract describes.)
C2_PathIsSanitizedSkuPlusExtension ==
    sku_index # name_index
        => \A i \in 1..Len(row_writes) :
              row_writes[i] =
                  Append(OutputDir,
                         safe_filename(CellAt(row, sku_index))
                             \o guess_extension(url, response.content_type))

\* the cell of column index (0-based) is absent from the row, None or empty
AbsentOrEmpty(r, index) ==
    \/ Len(r) <= index
    \/ r[index + 1] = None
    \/ r[index + 1] = <<>>

\* C3: a row whose SKU cell or name cell is empty or absent is skipped: it is
\* reported, nothing is searched, prompted or written for it, and main is back
\* at the head of the loop (or has returned because the rows ran out).
C3_RowWithMissingFieldSkipped ==
    (row_count > 0 /\ (AbsentOrEmpty(row, sku_index) \/ AbsentOrEmpty(row, name_index)))
        => /\ pc \in {"loop", "done"}
           /\ row_log = <<"skip">>
           /\ row_searches = <<>>
           /\ row_prompts = <<>>
           /\ row_attempts = <<>>
           /\ row_writes = <<>>

\* C3 witness: a row shorter than the name column, with a SKU, was skipped and
\* the loop is ready for the next row.
C3_Witness ==
    /\ pc = "loop"
    /\ row_count > 0 /\ row_count < MaxRows
    /\ Len(row) <= name_index
    /\ ~AbsentOrEmpty(row, sku_index)
    /\ row_log = <<"skip">>

\* C4: main returns 1 without reading a row when the input file is missing or a
\* column is unresolved; otherwise every row the iterator yields gets exactly
\* one outcome line, whatever that outcome is, main goes back to the head of
\* the loop after it, and main returns 0 only from there.
C4_ExitCodesAndIsolation ==
    /\ exit_code # <<>> <=> pc = "done"
    /\ (pc = "done" /\ (~input_exists \/ sku_index = NoIndex \/ name_index = NoIndex))
          => /\ exit_code = <<1>>
             /\ stderr_line # "none"
             /\ row_count = 0
             /\ logged = 0
    /\ (pc = "done" /\ input_exists /\ sku_index # NoIndex /\ name_index # NoIndex)
          => /\ exit_code = <<0>>
             /\ stderr_line = "none"
    /\ (pc \in {"loop", "done"} /\ row_count > 0)
          => /\ logged = row_count
             /\ Len(row_log) = 1
             /\ row_log[1] \in {"skip", "search_failed", "no_results",
                                "no_selection", "download_failed", "saved"}
    /\ MidRow => logged = row_count - 1 /\ row_log = <<>>
    /\ failures <= logged

\* C4 witness: a row failed, a later row was still processed to a saved file,
\* and main returned 0.
C4_Witness ==
    /\ pc = "done"
    /\ exit_code = <<0>>
    /\ row_count = MaxRows
    /\ failures = MaxRows - 1
    /\ row_log = <<"saved">>

\* C5: a file is written for a row only after the operator accepted one of its
\* candidates and the fetch of it returned a response that passed the status
\* check; a row that ends any other way has written nothing.
C5_WriteOnlyAfterSuccessfulFetch ==
    /\ pc = "write" => (~response.raised /\ response.status < 400)
    /\ row_writes # <<>>
          => /\ Len(row_writes) = 1
             /\ Len(row_attempts) = 1
             /\ ~response.raised
             /\ response.status < 400
             /\ row_log = <<"saved">>
    /\ (row_log # <<>> /\ row_log # <<"saved">>) => row_writes = <<>>
    /\ (row_searches = <<>> \/ results = <<>>) => row_writes = <<>>

\* C5 witness: an accepted candidate whose fetch answered an error status: the
\* row is over and nothing was written.
C5_Witness ==
    /\ pc = "loop"
    /\ row_attempts # <<>>
    /\ response.status = 404
    /\ row_log = <<"download_failed">>
    /\ row_writes = <<>>

SetMin(S) == CHOOSE x \in S : \A y \in S : x <= y

\* the resolver as the specification words it; the index is 0-based
ReferenceResolver(hs, candidates) ==
    LET low    == [i \in 1..Len(hs) |-> Lower(hs[i])]
        exact  == {k \in 1..Len(candidates) : \E i \in 1..Len(hs) : low[i] = candidates[k]}
        within == {i \in 1..Len(hs) :
                      \E k \in 1..Len(candidates) : Contains(low[i], candidates[k])}
    IN  IF exact # {}
        THEN SetMin({i \in 1..Len(hs) : low[i] = candidates[SetMin(exact)]}) - 1
        ELSE IF within # {} THEN SetMin(within) - 1
        ELSE NoIndex

\* C6: find_column returns what the reference resolver returns; and with the
\* candidate lists of main, a header list holding an exact "sku" (or "name")
\* header resolves to a position of such a header.
C6_FindColumnIsReference ==
    pc = "ret"
        => /\ fn_ret[1] = ReferenceResolver(fn_args[1], fn_args[2])
           /\ \A c \in {SkuCandidates, NameCandidates} :
                 (fn_args[2] = c /\ \E i \in 1..Len(fn_args[1]) : Lower(fn_args[1][i]) = c[1])
                     => /\ fn_ret[1] \in 0..(Len(fn_args[1]) - 1)
                        /\ Lower(fn_args[1][fn_ret[1] + 1]) = c[1]

\* C6 witness: "sku" is the second header, after a header that equals a later
\* candidate and contains "sku"; the exact "sku" column wins.
C6_Witness ==
    /\ pc = "ret"
    /\ fn_args[2] = SkuCandidates
    /\ fn_args[1] = << <<"I","t","e","m"," ","S","K","U">>, <<"s","k","u">> >>
    /\ fn_ret = <<1>>

\* the extensions a URL can end in, and the suffix each stands for
UrlEndings == {Jpg, Jpeg, Png, Gif, Webp}

\* positions of a dot followed by an ending, then the end of the URL or "?"
EndingPositions(u) ==
    {i \in 1..Len(u) :
        /\ u[i] = "."
        /\ \E e \in UrlEndings :
              /\ i + Len(e) <= Len(u)
              /\ Lower(SubSeq(u, i + 1, i + Len(e))) = e
              /\ (i + Len(e) = Len(u) \/ u[i + Len(e) + 1] = "?")}

EndingAt(u, i) ==
    CHOOSE e \in UrlEndings :
        /\ i + Len(e) <= Len(u)
        /\ Lower(SubSeq(u, i + 1, i + Len(e))) = e
        /\ (i + Len(e) = Len(u) \/ u[i + Len(e) + 1] = "?")

IsText(v) == v # None /\ v # <<>>

\* the MIME words in the order the content type is searched for them
MimeWords == <<Jpeg, Png, Webp, Gif>>

KnownMime(ct) == IsText(ct) /\ \E k \in 1..4 : Contains(ct, MimeWords[k])

\* C7: content type first (jpeg, png, webp, gif, in that order; jpeg gives
\* .jpg), then the URL's ending (lower-cased, jpeg gives .jpg), then .jpg.
C7_ExtensionPrecedence ==
    pc = "ret"
        => LET u   == fn_args[1]
               ct  == fn_args[2]
               ext == fn_ret[1]
           IN  /\ KnownMime(ct)
                     => LET k == SetMin({j \in 1..4 : Contains(ct, MimeWords[j])})
                        IN  ext = IF k = 1 THEN <<".">> \o Jpg ELSE <<".">> \o MimeWords[k]
               /\ (~KnownMime(ct) /\ EndingPositions(u) # {})
                     => LET e == EndingAt(u, SetMin(EndingPositions(u)))
                        IN  ext = IF e = Jpeg THEN <<".">> \o Jpg ELSE <<".">> \o e
               /\ (~KnownMime(ct) /\ EndingPositions(u) = {})
                     => ext = <<".">> \o Jpg

\* C7 witness: a URL ending in .webp with content type image/png gives .png.
C7_Witness ==
    /\ pc = "ret"
    /\ fn_args[1] = <<"a",".","w","e","b","p">>
    /\ fn_args[2] = ImageSlash \o Png
    /\ fn_ret = << <<".","p","n","g">> >>

\* C8: safe_filename applied to its own result returns that result.
C8_SafeFilenameIdempotent ==
    pc = "ret" => fn_ret[2] = fn_ret[1]

\* C8 witness: "A/B C*D" became "A_B_C_D" and stayed so.
C8_Witness ==
    /\ pc = "ret"
    /\ fn_args[1] = SpecExampleName
    /\ fn_ret[1] = <<"A","_","B","_","C","_","D">>

\* C9: the query handed to the search client is never the empty string.
\* (Stated for sheets whose SKU and name columns are two columns.)
C9_QueryNeverEmpty ==
    sku_index # name_index
        => \A i \in 1..Len(row_searches) : row_searches[i] # <<>>

\* C10: once past column resolution, the SKU column and the name column are
\* different columns.
C10_DistinctColumns ==
    (pc # "start" /\ dir_made) => sku_index # name_index

====
